---- MODULE Spec2Model ----
(***************************************************************************)
(* YCast (src/ycast.py): a vTuner emulation.  StationSource keeps the      *)
(* station tree read from stations.yml and an index of the stations by     *)
(* id; YCastHandler.do_GET answers one request at a time (YCastServer is   *)
(* a plain HTTPServer: requests are served one after the other).           *)
(*                                                                         *)
(* Text is modelled as a sequence of code points (<<97>> is "a"), so that  *)
(* str.lower, urllib's quote/unquote and str.split are computed, not       *)
(* assumed.                                                                *)
(***************************************************************************)
EXTENDS Integers, Sequences, FiniteSets, TLC

VARIABLES file, stations, stations_by_id, request, reply

vars == <<file, stations, stations_by_id, request, reply>>

-----------------------------------------------------------------------------
(* Bounds of the model. *)

\* The most entries (categories and stations together) a configuration holds.
MaxNodes == 3

\* The largest `start` and `howmany` a listing request carries.
MaxWindow == 2

-----------------------------------------------------------------------------
(* Program constants. *)

\* 'http://radioyamaha.vtuner.com' + '/' + 'ycast' + '?category='
UrlDirPrefix ==
    <<104, 116, 116, 112, 58, 47, 47, 114, 97, 100, 105, 111, 121, 97, 109,
      97, 104, 97, 46, 118, 116, 117, 110, 101, 114, 46, 99, 111, 109, 47,
      121, 99, 97, 115, 116, 63, 99, 97, 116, 101, 103, 111, 114, 121, 61>>

\* 'Radio Paradise - auto:http://stream.radioparadise.com/mp3-192'
DEFAULTSTATION ==
    <<82, 97, 100, 105, 111, 32, 80, 97, 114, 97, 100, 105, 115, 101, 32, 45,
      32, 97, 117, 116, 111, 58, 104, 116, 116, 112, 58, 47, 47, 115, 116,
      114, 101, 97, 109, 46, 114, 97, 100, 105, 111, 112, 97, 114, 97, 100,
      105, 115, 101, 46, 99, 111, 109, 47, 109, 112, 51, 45, 49, 57, 50>>

\* The station id sent with the default station.
DefaultStationId == 999999

\* The window of a listing whose query names none: start = 1, size = 8.
DefaultStart == 1

DefaultSize == 8

-----------------------------------------------------------------------------
(* Text. *)

Min(a, b) == IF a < b THEN a ELSE b

Max(a, b) == IF a < b THEN b ELSE a

\* str.lower, on ASCII.
Lower(s) == [i \in 1..Len(s) |-> IF s[i] \in 65..90 THEN s[i] + 32 ELSE s[i]]

\* Python's order of two strings: by code point, a proper prefix first.
StrLess(s, t) ==
    \E i \in 1..(Min(Len(s), Len(t)) + 1) :
        /\ \A j \in 1..(i - 1) : s[j] = t[j]
        /\ \/ i > Len(s) /\ i <= Len(t)
           \/ i <= Len(s) /\ i <= Len(t) /\ s[i] < t[i]

\* The place (1-based) of the i-th item in a stable sort by sort key, by[i]
\* being the sort key of the i-th item.
Rank(by, i) ==
    1 + Cardinality({j \in 1..Len(by) : StrLess(by[j], by[i])})
      + Cardinality({j \in 1..(i - 1) : by[j] = by[i]})

\* sorted(): the items in ascending order of their sort keys, items of equal
\* sort key in the order they had.
StableSort(items, by) ==
    [r \in 1..Len(items) |->
        items[CHOOSE i \in 1..Len(items) : Rank(by, i) = r]]

\* sorted(keys): by code point, the key= argument left out.
sorted_plain(keys) == StableSort(keys, keys)

\* sorted(keys, key=str.lower)
sorted_lower(keys) == StableSort(keys, [i \in 1..Len(keys) |-> Lower(keys[i])])

\* s[lo:hi], Python's slice of a list.
PySlice(s, lo, hi) ==
    LET n == Len(s)
        a == IF lo < 0 THEN Max(n + lo, 0) ELSE Min(lo, n)
        b == IF hi < 0 THEN Max(n + hi, 0) ELSE Min(hi, n)
    IN  IF a >= b THEN <<>> ELSE SubSeq(s, a + 1, b)

\* The first place of code point c in s, 0 when it is not there.
IndexOf(s, c) ==
    IF \E i \in 1..Len(s) : s[i] = c
    THEN CHOOSE i \in 1..Len(s) : s[i] = c /\ \A j \in 1..(i - 1) : s[j] # c
    ELSE 0

\* s.split(sep), sep one character.
RECURSIVE Split(_, _)
Split(s, sep) ==
    LET i == IndexOf(s, sep)
    IN  IF i = 0 THEN <<s>>
        ELSE <<SubSeq(s, 1, i - 1)>> \o Split(SubSeq(s, i + 1, Len(s)), sep)

\* s.partition(sep), sep one character: <<head, sep, tail>>.
Partition(s, sep) ==
    LET i == IndexOf(s, sep)
    IN  IF i = 0 THEN <<s, <<>>, <<>>>>
        ELSE <<SubSeq(s, 1, i - 1), <<sep>>, SubSeq(s, i + 1, Len(s))>>

\* The characters urllib's quote leaves alone: letters, digits, "_.-~" and
\* the default safe character "/".
IsSafe(c) == c \in (48..57) \cup (65..90) \cup (97..122) \cup {95, 46, 45, 126, 47}

HexDigit(v) == IF v < 10 THEN 48 + v ELSE 55 + v

IsHex(c) == c \in (48..57) \cup (65..70) \cup (97..102)

HexVal(c) == IF c \in 48..57 THEN c - 48
             ELSE IF c \in 65..70 THEN c - 55 ELSE c - 87

\* urllib.parse.quote of an ASCII string.
RECURSIVE quote(_)
quote(s) ==
    IF s = <<>> THEN <<>>
    ELSE (IF IsSafe(s[1]) THEN <<s[1]>>
          ELSE <<37, HexDigit(s[1] \div 16), HexDigit(s[1] % 16)>>)
         \o quote(Tail(s))

\* urllib.parse.unquote: %XX becomes the character of that code; a lone
\* byte above 127 is no UTF-8 and decodes to U+FFFD; a % that no two hex
\* digits follow stays.
RECURSIVE unquote(_)
unquote(s) ==
    IF s = <<>> THEN <<>>
    ELSE IF Len(s) >= 3 /\ s[1] = 37 /\ IsHex(s[2]) /\ IsHex(s[3])
         THEN LET b == 16 * HexVal(s[2]) + HexVal(s[3])
              IN  <<IF b < 128 THEN b ELSE 65533>> \o unquote(SubSeq(s, 4, Len(s)))
         ELSE <<s[1]>> \o unquote(Tail(s))

\* What parse_qs makes of one raw query value: "+" is a space, then unquote.
parse_qs_value(raw) ==
    unquote([i \in 1..Len(raw) |-> IF raw[i] = 43 THEN 32 ELSE raw[i]])

\* The raw value of parameter `key` in the query of `url`, as urlsplit and
\* parse_qs find it before decoding: the text after "?", cut at "&", the
\* part after "key=".  <<>> when there is none (parse_qs drops a blank value).
query_value(url, key) ==
    LET q     == IF IndexOf(url, 63) = 0 THEN <<>>
                 ELSE SubSeq(url, IndexOf(url, 63) + 1, Len(url))
        pairs == Split(q, 38)
        hits  == {i \in 1..Len(pairs) : Partition(pairs[i], 61)[1] = key}
    IN  IF hits = {} THEN <<>>
        ELSE Partition(pairs[CHOOSE i \in hits : \A j \in hits : i <= j], 61)[3]

\* filter_url: a url without 'streamtheworld.com/' is returned as it is (no
\* url of the model holds that text; the other branch asks the network).
filter_url(url) == url

-----------------------------------------------------------------------------
(* The station tree.  A mapping is the sequence of its entries in stored    *)
(* order; a value is a string (a station as configured), a mapping (a       *)
(* category) or, once numbered, the tuple (station_id, data).               *)

Str(data) == [kind |-> "str", id |-> 0, data |-> data, items |-> <<>>]

Dict(items) == [kind |-> "dict", id |-> 0, data |-> <<>>, items |-> items]

Tuple(id, data) == [kind |-> "tuple", id |-> id, data |-> data, items |-> <<>>]

Entry(key, val) == [key |-> key, val |-> val]

Keys(dir) == [i \in 1..Len(dir) |-> dir[i].key]

HasKey(dir, key) == \E i \in 1..Len(dir) : dir[i].key = key

Get(dir, key) == dir[CHOOSE i \in 1..Len(dir) : dir[i].key = key].val

\* len(value): the entries of a mapping, the two parts of a tuple.
PyLen(val) == IF val.kind = "dict" THEN Len(val.items)
              ELSE IF val.kind = "tuple" THEN 2 ELSE Len(val.data)

-----------------------------------------------------------------------------
(* StationSource. *)

\* walktree with the recursive call written walktree(data): the nested
\* mapping is numbered from the default station_id = 1 again.
RECURSIVE walktree_restart(_, _)
walktree_restart(directory, station_id) ==
    IF directory = <<>>
    THEN [dir |-> <<>>, next |-> station_id, index |-> <<>>]
    ELSE LET e == Head(directory)
         IN  IF e.val.kind = "dict"
             THEN LET sub  == walktree_restart(e.val.items, 1)
                      rest == walktree_restart(Tail(directory), sub.next)
                  IN  [dir   |-> <<Entry(e.key, Dict(sub.dir))>> \o rest.dir,
                       next  |-> rest.next,
                       index |-> sub.index \o rest.index]
             ELSE IF e.val.kind = "str"
             THEN LET rest == walktree_restart(Tail(directory), station_id + 1)
                  IN  [dir   |-> <<Entry(e.key, Tuple(station_id, e.val.data))>>
                                 \o rest.dir,
                       next  |-> rest.next,
                       index |-> <<[id |-> station_id, name |-> e.key,
                                    data |-> e.val.data]>> \o rest.index]
             ELSE LET rest == walktree_restart(Tail(directory), station_id)
                  IN  [dir   |-> <<e>> \o rest.dir,
                       next  |-> rest.next,
                       index |-> rest.index]

\* set_station_by_id.walktree: the entries in stored order; a mapping is
\* walked before the entries after it, a string becomes (station_id, data)
\* and is written to stations_by_id.  dir: the directory as left; next: the
\* station_id returned; index: the writes to stations_by_id, in order.
RECURSIVE walktree(_, _)
walktree(directory, station_id) ==
    IF directory = <<>>
    THEN [dir |-> <<>>, next |-> station_id, index |-> <<>>]
    ELSE LET e == Head(directory)
         IN  IF e.val.kind = "dict"
             THEN LET sub  == walktree(e.val.items, station_id)
                      rest == walktree(Tail(directory), sub.next)
                  IN  [dir   |-> <<Entry(e.key, Dict(sub.dir))>> \o rest.dir,
                       next  |-> rest.next,
                       index |-> sub.index \o rest.index]
             ELSE IF e.val.kind = "str"
             THEN LET rest == walktree(Tail(directory), station_id + 1)
                  IN  [dir   |-> <<Entry(e.key, Tuple(station_id, e.val.data))>>
                                 \o rest.dir,
                       next  |-> rest.next,
                       index |-> <<[id |-> station_id, name |-> e.key,
                                    data |-> e.val.data]>> \o rest.index]
             ELSE LET rest == walktree(Tail(directory), station_id)
                  IN  [dir   |-> <<e>> \o rest.dir,
                       next  |-> rest.next,
                       index |-> rest.index]

\* stations_by_id after the writes of one walk: a write replaces the entry
\* of its id, every other entry stays (the dictionary is created once, in
\* __init__, and never emptied).
IndexAfter(old, writes) ==
    LET ids == {writes[i].id : i \in 1..Len(writes)}
        Last(id) == CHOOSE i \in 1..Len(writes) :
                        /\ writes[i].id = id
                        /\ \A j \in (i + 1)..Len(writes) : writes[j].id # id
    IN  [id \in (DOMAIN old) \cup ids |->
            IF id \in ids
            THEN <<writes[Last(id)].name, writes[Last(id)].data>>
            ELSE old[id]]

\* get_stations: the file (which is there: a missing file ends the process)
\* is read anew and numbered.
get_stations(source, by_id_before) ==
    LET w == walktree(source, 1)
    IN  [stations |-> w.dir, stations_by_id |-> IndexAfter(by_id_before, w.index)]

\* by_hierarchy: the value the '|'-separated path leads to from the root.
\* err is "KeyError" when a mapping lacks the segment, "TypeError" when a
\* tuple is indexed with it.
RECURSIVE Descend(_, _)
Descend(current, hierarchy) ==
    IF hierarchy = <<>> THEN [err |-> "none", val |-> current]
    ELSE IF current.kind = "dict"
         THEN IF HasKey(current.items, Head(hierarchy))
              THEN Descend(Get(current.items, Head(hierarchy)), Tail(hierarchy))
              ELSE [err |-> "KeyError", val |-> current]
         ELSE [err |-> "TypeError", val |-> current]

by_hierarchy(tree, long_category) == Descend(Dict(tree), Split(long_category, 124))

\* by_id: err is "KeyError" when the index has no such id.
by_id(index, station_id) ==
    IF station_id \in DOMAIN index
    THEN [err |-> "none", name |-> index[station_id][1], url |-> index[station_id][2]]
    ELSE [err |-> "KeyError", name |-> <<>>, url |-> <<>>]

-----------------------------------------------------------------------------
(* YCastHandler: the replies. *)

\* send_error(404).
NotFound == [status |-> "404", tag |-> "", dircount |-> "", items |-> <<>>]

\* An exception leaves do_GET: no reply is written (socketserver logs the
\* traceback and closes the connection).
Fault == [status |-> "fault", tag |-> "", dircount |-> "", items |-> <<>>]

\* write_message of the handshake token.
Token == [status |-> "200", tag |-> "EncryptedToken", dircount |-> "",
          items |-> <<>>]

\* write_message of a ListOfItems document.
ListOfItems(dircount, items) ==
    [status |-> "200", tag |-> "ListOfItems", dircount |-> dircount,
     items |-> items]

\* add_dir (DirCount is the number str() is given).
DirItem(name, dest, dircount) ==
    [type |-> "Dir", title |-> name, url |-> dest, id |-> 0, count |-> dircount]

\* add_station (StationId is the number str() is given).
StationItem(name, url, station_id) ==
    [type |-> "Station", title |-> name, url |-> filter_url(url),
     id |-> station_id, count |-> 0]

\* reply_with_dir: every entry of the window is written as a directory.
reply_with_dir(tree, start, max_size) ==
    LET shown == PySlice(sorted_lower(Keys(tree)), start, start + max_size)
    IN  ListOfItems("9",
            [i \in 1..Len(shown) |->
                DirItem(shown[i], UrlDirPrefix \o quote(shown[i]),
                        PyLen(Get(tree, shown[i])))])

\* reply_with_mixed_list: a mapping is written as a directory, a tuple as a
\* station (a numbered tree holds no other value).  A path that misses
\* raises KeyError (do_GET answers 404); a path through a tuple raises
\* TypeError in by_hierarchy, a path to a tuple raises it in sorted(),
\* str.lower being given the station id.
reply_with_mixed_list(tree, hierarchy, start, max_size) ==
    LET found == by_hierarchy(tree, hierarchy)
    IN  IF found.err = "KeyError" THEN NotFound
        ELSE IF found.err = "TypeError" \/ found.val.kind # "dict" THEN Fault
        ELSE LET station_list == found.val.items
                 shown == PySlice(sorted_lower(Keys(station_list)),
                                  start, start + max_size)
             IN  ListOfItems("",
                     [i \in 1..Len(shown) |->
                         LET val == Get(station_list, shown[i])
                         IN  IF val.kind = "dict"
                             THEN DirItem(shown[i],
                                     UrlDirPrefix
                                       \o quote(hierarchy \o <<124>> \o shown[i]),
                                     Len(val.items))
                             ELSE StationItem(shown[i], val.data, val.id)])

\* The station-detail branch of do_GET.
station_detail(index, station_id) ==
    LET found == by_id(index, station_id)
    IN  IF found.err = "none"
        THEN ListOfItems("", <<StationItem(found.name, found.url, station_id)>>)
        ELSE ListOfItems("", <<StationItem(Partition(DEFAULTSTATION, 38)[1],
                                           Partition(DEFAULTSTATION, 38)[3],
                                           DefaultStationId)>>)

\* The decoding of the category value in do_GET: parse.unquote of what
\* parse_qs returned.
decode_category(raw) == unquote(parse_qs_value(raw))

-----------------------------------------------------------------------------
(* The configurations and the requests the model draws from. *)

\* Category and station names: "a" and "B" (code point order puts "B"
\* first, str.lower order puts "a" first).
Names == {<<97>>, <<66>>}

\* Names that quote() has to escape or that read as an escape: "%41", "A".
EscapeNames == {<<37, 52, 49>>, <<65>>}

\* The data of a station: "u".
Urls == {<<117>>}

\* The mappings of exactly n entries (nested ones counted), keys from names.
RECURSIVE TreesOfSize(_, _)
TreesOfSize(names, n) ==
    IF n = 0 THEN {<<>>}
    ELSE UNION { UNION { { <<Entry(k, v)>> \o rest :
                             v \in (IF sz = 0
                                    THEN {Str(u) : u \in Urls} \cup {Dict(<<>>)}
                                    ELSE {Dict(t) : t \in TreesOfSize(names, sz)}),
                             rest \in {r \in TreesOfSize(names, n - 1 - sz) :
                                          ~HasKey(r, k)} } :
                         sz \in 0..(n - 1) } :
                 k \in names }

Configs(names) == UNION {TreesOfSize(names, n) : n \in 0..MaxNodes}

\* The configurations stations.yml is edited into.
Editions == Configs(Names)

\* The start and howmany of a query, or neither.
Windows ==
    {[given |-> TRUE, start |-> s, howmany |-> h] :
        s \in 1..MaxWindow, h \in 0..MaxWindow}
    \cup {[given |-> FALSE, start |-> 0, howmany |-> 0]}

\* The id of a query, or none.
IdParams ==
    {[given |-> TRUE, id |-> i] : i \in 1..(MaxNodes + 1)}
    \cup {[given |-> FALSE, id |-> 0]}

\* The category of a query as it stands in the request line (one or two
\* names joined by "|", quoted), or none.
CategoryParams(names) ==
    {[given |-> TRUE, raw |-> quote(a)] : a \in names}
    \cup {[given |-> TRUE, raw |-> quote(a \o <<124>> \o b)] : a \in names, b \in names}
    \cup {[given |-> FALSE, raw |-> <<>>]}

NoWindow == [given |-> FALSE, start |-> 0, howmany |-> 0]

Request(op, window, id, category) ==
    [op |-> op, window |-> window, id |-> id, category |-> category]

NoRequest ==
    Request("none", NoWindow, [given |-> FALSE, id |-> 0],
            [given |-> FALSE, raw |-> <<>>])

NoReply == [status |-> "none", tag |-> "", dircount |-> "", items |-> <<>>]

-----------------------------------------------------------------------------
(* YCastHandler.do_GET, one action for each branch.  Every request reads   *)
(* the configuration anew before it is looked at.                          *)

\* The defaults of reply_with_dir's parameters.
DirStart == 0

DirMaxSize == 8

\* self.server.source.get_stations() at the head of do_GET.
Loaded == get_stations(file, stations_by_id)

\* The handler takes a request when none is being served, reads the
\* configuration and leaves the catalog as read.
Reload ==
    /\ request = NoRequest
    /\ stations' = Loaded.stations
    /\ stations_by_id' = Loaded.stations_by_id
    /\ UNCHANGED file

\* GET <init path>?token=...
Handshake ==
    /\ Reload
    /\ request' = Request("handshake", NoWindow, NoRequest.id, NoRequest.category)
    /\ reply' = Token

\* GET <init path> without token: start and howmany are read unguarded.
RootListing ==
    \E w \in Windows :
        /\ Reload
        /\ request' = Request("root", w, NoRequest.id, NoRequest.category)
        /\ reply' = IF w.given
                    THEN reply_with_dir(Loaded.stations, w.start - 1, w.howmany)
                    ELSE Fault

\* GET <status path>: id is read unguarded.
StationDetail ==
    \E q \in IdParams :
        /\ Reload
        /\ request' = Request("station", NoWindow, q, NoRequest.category)
        /\ reply' = IF q.given
                    THEN station_detail(Loaded.stations_by_id, q.id)
                    ELSE Fault

\* GET /, /ycast, /ycast/ (and a path that only starts with the init path).
AliasRoot ==
    /\ Reload
    /\ request' = Request("alias", NoWindow, NoRequest.id, NoRequest.category)
    /\ reply' = reply_with_dir(Loaded.stations, DirStart, DirMaxSize)

\* GET /ycast?...: category is read unguarded, start and howmany fall back
\* to 1 and 8.
CategoryListing(names) ==
    \E c \in CategoryParams(names), w \in Windows :
        /\ Reload
        /\ request' = Request("category", w, NoRequest.id, c)
        /\ reply' = IF c.given
                    THEN reply_with_mixed_list(
                             Loaded.stations, decode_category(c.raw),
                             (IF w.given THEN w.start ELSE DefaultStart) - 1,
                             IF w.given THEN w.howmany ELSE DefaultSize)
                    ELSE Fault

\* Any other path.
Unrecognized ==
    /\ Reload
    /\ request' = Request("other", NoWindow, NoRequest.id, NoRequest.category)
    /\ reply' = NotFound

\* do_GET is over: the handler object, made for this one message, is gone
\* and serve_forever takes the next request.
Finish ==
    /\ request # NoRequest
    /\ request' = NoRequest
    /\ reply' = NoReply
    /\ UNCHANGED <<file, stations, stations_by_id>>

\* stations.yml is edited between two requests.
EditConfig ==
    /\ request = NoRequest
    /\ file' \in Editions \ {file}
    /\ UNCHANGED <<stations, stations_by_id, request, reply>>

InitOver(names) ==
    /\ file \in Configs(names)
    /\ stations = <<>>
    /\ stations_by_id = <<>>
    /\ request = NoRequest
    /\ reply = NoReply

Init == InitOver(Names)

InitEscape == InitOver(EscapeNames)

Next ==
    \/ Handshake
    \/ RootListing
    \/ StationDetail
    \/ AliasRoot
    \/ CategoryListing(Names)
    \/ Unrecognized
    \/ Finish

NextEscape ==
    \/ Handshake
    \/ RootListing
    \/ StationDetail
    \/ AliasRoot
    \/ CategoryListing(EscapeNames)
    \/ Unrecognized
    \/ Finish

NextReload == Next \/ EditConfig

\* The server over one configuration file that stays as it is.
Spec == Init /\ [][Next]_vars

\* The same, the names of the configuration needing escapes.
SpecEscape == InitEscape /\ [][NextEscape]_vars

\* The server while the configuration file is edited.
SpecReload == Init /\ [][NextReload]_vars

-----------------------------------------------------------------------------
(* What the properties speak of. *)

\* The stations of a tree in document order (pre-order).
RECURSIVE Leaves(_)
Leaves(dir) ==
    IF dir = <<>> THEN <<>>
    ELSE (IF Head(dir).val.kind = "dict" THEN Leaves(Head(dir).val.items)
          ELSE <<Head(dir)>>)
         \o Leaves(Tail(dir))

\* The configuration a numbered tree was read from.
RECURSIVE Strip(_)
Strip(dir) ==
    [i \in 1..Len(dir) |->
        Entry(dir[i].key,
              IF dir[i].val.kind = "dict" THEN Dict(Strip(dir[i].val.items))
              ELSE IF dir[i].val.kind = "tuple" THEN Str(dir[i].val.data)
              ELSE dir[i].val)]

\* The paths (sequences of names) of the categories of a tree, the root's
\* empty path among them.
RECURSIVE CategoryPaths(_)
CategoryPaths(dir) ==
    {<<>>} \cup
    UNION { { <<dir[i].key>> \o p : p \in CategoryPaths(dir[i].val.items) } :
            i \in {j \in 1..Len(dir) : dir[j].val.kind = "dict"} }

RECURSIVE JoinPath(_)
JoinPath(segs) ==
    IF segs = <<>> THEN <<>>
    ELSE IF Len(segs) = 1 THEN segs[1]
    ELSE segs[1] \o <<124>> \o JoinPath(Tail(segs))

\* The children of the category at a path, the root for the empty path.
ChildrenAt(tree, segs) ==
    IF segs = <<>> THEN tree ELSE by_hierarchy(tree, JoinPath(segs)).val.items

Range(seq) == {seq[i] : i \in 1..Len(seq)}

\* titles is the window start .. min(start + howmany - 1, n) of keys put in
\* ascending order of their lower-case form: the k-th title has fewer than
\* start + k - 1 keys strictly before it and at least that many not after.
IsWindow(keys, start, howmany, titles) ==
    LET n   == Len(keys)
        cnt == Max(Min(start + howmany - 1, n) - start + 1, 0)
        Before(x) == {j \in 1..n : StrLess(Lower(keys[j]), Lower(x))}
        UpTo(x)   == {j \in 1..n : ~StrLess(Lower(x), Lower(keys[j]))}
    IN  /\ Len(titles) = cnt
        /\ \A k \in 1..cnt :
              /\ titles[k] \in Range(keys)
              /\ Cardinality(Before(titles[k])) < start + k - 1
              /\ Cardinality(UpTo(titles[k])) >= start + k - 1
        /\ \A k, l \in 1..cnt : k # l => titles[k] # titles[l]

Titles(items) == [i \in 1..Len(items) |-> items[i].title]

\* The node a listing request lists: the root, or what the category leads to.
Listed ==
    IF request.op = "category"
    THEN by_hierarchy(stations, decode_category(request.category.raw))
    ELSE [err |-> "none", val |-> Dict(stations)]

ListsCategory ==
    /\ request.op \in {"root", "alias", "category"}
    /\ request.op = "category" => request.category.given
    /\ Listed.err = "none"
    /\ Listed.val.kind = "dict"

-----------------------------------------------------------------------------
(* C1 *)

\* Once a request has read the configuration, the stations of the tree carry
\* the ids 1, 2, .., N in document order, N the number of stations of the
\* configuration, each under its configured name.
IdsInPreorder ==
    request # NoRequest =>
        LET got == Leaves(stations)
        IN  /\ Len(got) = Len(Leaves(file))
            /\ \A i \in 1..Len(got) :
                  /\ got[i].val = Tuple(i, Leaves(file)[i].val.data)
                  /\ got[i].key = Leaves(file)[i].key

\* A request that reads the configuration the catalog was built from leaves
\* every station its id.
RebuildKeepsIds ==
    (request' # NoRequest /\ file' = file /\ Strip(stations) = file)
        => stations' = stations

\* C1: building the catalog numbers the stations 1..N, distinct, in pre-order
\* document order (a nested category's stations before the siblings after
\* it), and building again from the same configuration gives the same ids.
C1_PreorderIds == [](IdsInPreorder) /\ [][RebuildKeepsIds]_vars

\* A built tree whose root holds a category with a station in it and, right
\* after it, a station, numbered after the nested one.
C1_Witness ==
    /\ request # NoRequest
    /\ \E i \in 1..(Len(stations) - 1) :
          /\ stations[i].val.kind = "dict"
          /\ Leaves(stations[i].val.items) # <<>>
          /\ stations[i + 1].val.kind = "tuple"
          /\ stations[i + 1].val.id = Len(Leaves(stations[i].val.items)) + 1

-----------------------------------------------------------------------------
(* C5 *)

\* C5: a root or category listing with start >= 1 and howmany >= 0 over a
\* node of n children returns the children at the places start ..
\* min(start + howmany - 1, n) of the children sorted by lower-case name, in
\* that order, a category as a directory and a station as a station.
C5_Window ==
    (ListsCategory /\ request.window.given) =>
        /\ reply.status = "200"
        /\ IsWindow(Keys(Listed.val.items), request.window.start,
                    request.window.howmany, Titles(reply.items))
        /\ request.op = "category" =>
              \A i \in 1..Len(reply.items) :
                  LET child == Get(Listed.val.items, reply.items[i].title)
                  IN  IF child.kind = "dict"
                      THEN reply.items[i].type = "Dir"
                      ELSE /\ reply.items[i].type = "Station"
                           /\ reply.items[i].id = child.id

\* A category of two children stored as "B", "a", listed from start = 2 with
\* howmany = 2: the one item is the second in sorted order, "B".
C5_Witness ==
    /\ ListsCategory
    /\ request.op = "category"
    /\ request.window = [given |-> TRUE, start |-> 2, howmany |-> 2]
    /\ Keys(Listed.val.items) = <<<<66>>, <<97>>>>
    /\ Titles(reply.items) = <<<<66>>>>

-----------------------------------------------------------------------------
(* C2 *)

\* The ids of the stations of the catalog as loaded.
LoadedIds == {Leaves(stations)[i].val.id : i \in 1..Len(Leaves(stations))}

\* C2: a station-detail request with an id is answered with one station
\* item, and with the default station under id 999999 when no station of the
\* loaded catalog has the id.
C2_DefaultOnUnknownId ==
    (request.op = "station" /\ request.id.given) =>
        /\ reply.status = "200"
        /\ Len(reply.items) = 1
        /\ reply.items[1].type = "Station"
        /\ request.id.id \notin LoadedIds =>
              /\ reply.items[1].title = DEFAULTSTATION
              /\ reply.items[1].id = 999999

-----------------------------------------------------------------------------
(* C3 *)

\* C3: a station-detail request without id, and a category listing without
\* category, are answered 404.
C3_MissingParameterIs404 ==
    (\/ request.op = "station" /\ ~request.id.given
     \/ request.op = "category" /\ ~request.category.given)
        => reply.status = "404"

-----------------------------------------------------------------------------
(* C4 *)

\* C4: a category listing whose path does not lead to a category (a segment
\* is missing, or a segment, the last one too, names a station) is answered
\* 404.
C4_UnresolvedPathIs404 ==
    (/\ request.op = "category"
     /\ request.category.given
     /\ Listed.err # "none" \/ Listed.val.kind # "dict")
        => reply.status = "404"

-----------------------------------------------------------------------------
(* C6 *)

\* C6: a listing request without start and howmany (on the init path, on an
\* alias path, of a category) is answered with the window start = 1,
\* size = 8 of the sorted children.
C6_DefaultWindow ==
    (ListsCategory /\ ~request.window.given) =>
        /\ reply.status = "200"
        /\ IsWindow(Keys(Listed.val.items), 1, 8, Titles(reply.items))

-----------------------------------------------------------------------------
(* C7 *)

\* C7: after a load the index holds the latest configuration alone: by_id
\* finds the ids 1..N of the configuration read, each with the name and data
\* of its station, and no other id.
C7_OnlyLatestGeneration ==
    request # NoRequest =>
        /\ DOMAIN stations_by_id = 1..Len(Leaves(file))
        /\ \A id \in 1..Len(Leaves(file)) :
              by_id(stations_by_id, id) =
                  [err |-> "none", name |-> Leaves(file)[id].key,
                   url |-> Leaves(file)[id].val.data]

-----------------------------------------------------------------------------
(* C8 *)

-----------------------------------------------------------------------------
(* C9 *)

\* C9: every id by_id finds, with (name, url), is the id of a child `name`
\* of some category the path of that category resolves to, a station with
\* that id and url.
C9_LookupsAgree ==
    request # NoRequest =>
        \A id \in DOMAIN stations_by_id :
            \E p \in CategoryPaths(stations) :
                LET found == by_id(stations_by_id, id)
                    children == ChildrenAt(stations, p)
                IN  /\ HasKey(children, found.name)
                    /\ Get(children, found.name) = Tuple(id, found.url)

-----------------------------------------------------------------------------
(* C10 *)

\* C10: the category value of the UrlDir of every directory item of a
\* listing, decoded as do_GET decodes it and resolved from the root, is the
\* child of the listed node that the item's Title names.
C10_UrlDirLeadsToChild ==
    (ListsCategory /\ reply.status = "200") =>
        \A i \in 1..Len(reply.items) :
            reply.items[i].type = "Dir" =>
                LET raw == query_value(reply.items[i].url,
                                       <<99, 97, 116, 101, 103, 111, 114, 121>>)
                    found == by_hierarchy(stations, decode_category(raw))
                IN  /\ raw # <<>>
                    /\ found.err = "none"
                    /\ found.val = Get(Listed.val.items, reply.items[i].title)

====
